---- MODULE Spec2Model ----
(***************************************************************************)
(* InboxJanitor.  Part 1: the resumable Gmail synchronisation route        *)
(* (POST /api/gmail/sync), modelled step by step from the route handler.   *)
(* Part 2: the learning functions on the SenderStats table.  Part 3: the   *)
(* pure functions calculatePenalty and normalizeCategory on drawn inputs.  *)
(* Part 4: the classification run of POST suggest-deletes.  Part 5: the    *)
(* GoogleAccount helpers.  Part 6: POST confirm-delete.  Each part has its *)
(* own specification; the variables of the other parts rest in it.         *)
(*                                                                         *)
(* One mailbox account is synchronised.  The provider's mailbox is a fixed *)
(* list of message ids 1..mailboxSize inside the lookback window; the      *)
(* provider hands it out in pages.  Up to two POST invocations may run at  *)
(* the same time (the settings page starts a POST from its poller while an *)
(* earlier POST may still be running), so the handler is cut into steps at *)
(* its accesses to the shared tables: a step is one such access together   *)
(* with the external calls and local work that precede it.  Calls to the   *)
(* provider and to the database may fail, at most MaxFaults times in a     *)
(* behaviour.                                                              *)
(***************************************************************************)
EXTENDS Integers, Sequences, FiniteSets, TLC

(***************************************************************************)
(* Bounds of the model.  MESSAGES_PER_CHUNK, MAX_MESSAGES_PER_API_CALL and *)
(* PROGRESS_EVERY are the route's 50, 500 and 10, scaled down so that a    *)
(* page longer than a chunk and a mailbox longer than a page fit the       *)
(* state space; their order (step <= chunk < page) is that of the source.  *)
(* MaxInvocations bounds the POSTs of Spec (which may overlap),            *)
(* MaxSeqInvocations those of SpecSeq (one after the other).               *)
(***************************************************************************)
MaxMsgs == 4

MaxInvocations == 2

MaxSeqInvocations == 4

MaxFaults == 1

MESSAGES_PER_CHUNK == 2

MAX_MESSAGES_PER_API_CALL == 3

PROGRESS_EVERY == 1

\* calls of the learning functions in one behaviour of SpecLearn
MaxCalls == 4

\* longest list of senders handed to getBatchSenderPenalties
MaxSenderList == 2

\* largest counter of the rows calculatePenalty is applied to in SpecFn
MaxCount == 4

\* BATCH_SIZE and CHUNK_SIZE of the classification run (150 and 50 in the
\* source), scaled down: a run has up to two chunks, the last one shorter
MaxBatch == 3

CHUNK_SIZE == 2

\* messages in the store of the confirm-delete specifications, and the
\* longest messageIds list of a confirm-delete request
MaxDecide == 2

MaxSelected == 2

\* DELETE_SCORE_THRESHOLD = 0.7, in hundredths
DELETE_SCORE_THRESHOLD == 70

Procs == {"p1", "p2"}

Senders == {"s1", "s2"}

MsgIds == 1..MaxMsgs

\* parseSender(metadata.headers.from): the provider's data, two senders.
SenderOf(id) == IF id % 2 = 1 THEN "s1" ELSE "s2"

\* nextPageToken: 0 is "no token" (null / undefined); t > 0 names the page
\* that starts after t full pages.
NoToken == 0

VARIABLES
    mailboxSize,     \* number of message ids the provider lists
    progress,        \* SyncProgress table: sequence of rows, in startedAt order
    msgRows,         \* Message table: number of rows per gmailMessageId
    senderStats,     \* SenderStats table: per sender, its row (or NoStatsRow)
    pc,              \* per invocation slot: position in POST
    loc,             \* per invocation slot: the handler's local variables
    resp,            \* the response of the last step, if it returned one
    invocations,     \* number of POST invocations started so far
    faults,          \* number of failures of external calls injected so far
    overlapped,      \* history: two invocations have been active together
    call,            \* the calls of learning functions in flight, by caller slot
    calls,           \* number of learning calls started so far
    recorded,        \* history: per sender, decision calls that returned normally
    run,             \* the POST suggest-deletes invocation: position and locals
    aiRows,          \* Message table: the classification columns of the rows
                     \* a classification run selected
    fnIn,            \* SpecFn: the arguments drawn for the pure functions
    fnOut,           \* SpecFn: the functions applied so far and what they returned
    accounts,        \* GoogleAccount table: the rows of one user, in createdAt order
    msgFlags,        \* Message table: the decision columns of each row
    autoIncludeSenders, \* GoogleAccount.autoIncludeSenders of the active account
    classifier,      \* the classifier service: "answers" every chunk with one
                     \* classification per submitted message, or may do "any" thing
    confirm,         \* the POST confirm-delete invocations in flight, by slot
    deleteBatches,   \* DeleteBatch table with the DeleteBatchItems of each batch
    trashed          \* history: per message, the trash calls that succeeded

learnVars == <<call, calls, recorded>>

classifyVars == <<run, aiRows>>

fnVars == <<fnIn, fnOut>>

accountVars == <<accounts>>

\* the tables and requests of the deletion decisions
decideVars == <<msgFlags, autoIncludeSenders, classifier, confirm,
                deleteBatches, trashed>>

\* the variables only the sync route uses
syncVars == <<mailboxSize, progress, pc, loc, resp, invocations, faults,
              overlapped>>

\* the variables the sync route does not use
notSyncVars == <<learnVars, classifyVars, fnVars, accountVars, decideVars>>

\* the variables the learning functions do not use
notLearnVars == <<syncVars, classifyVars, fnVars, accountVars, decideVars>>

\* the variables the classification run does not use
notClassifyVars ==
    <<progress, pc, loc, resp, invocations, overlapped, learnVars, fnVars,
      accountVars, decideVars>>

vars == <<mailboxSize, progress, msgRows, senderStats, pc, loc, resp,
          invocations, faults, overlapped, learnVars, classifyVars, fnVars,
          accountVars, decideVars>>

----
(***************************************************************************)
(* Provider: listMessages(gmail, query, maxResults, pageToken)             *)
(***************************************************************************)
Min(a, b) == IF a < b THEN a ELSE b

RECURSIVE Range(_, _)
Range(lo, hi) == IF lo > hi THEN <<>> ELSE <<lo>> \o Range(lo + 1, hi)

\* ids of the page a token names, in provider order
ListPageIds(n, maxResults, pageToken) ==
    Range(pageToken * maxResults + 1, Min(n, (pageToken + 1) * maxResults))

\* the token the provider returns with that page
ListNextToken(n, maxResults, pageToken) ==
    IF (pageToken + 1) * maxResults < n THEN pageToken + 1 ELSE NoToken

\* gmailMessages.slice(0, MESSAGES_PER_CHUNK)
Slice(s, k) == SubSeq(s, 1, Min(Len(s), k))

----
(***************************************************************************)
(* Tables and locals                                                       *)
(***************************************************************************)
NewProgressRow ==
    [status |-> "in_progress", totalMessages |-> 0, processedMessages |-> 0,
     created |-> 0, updated |-> 0, errors |-> 0, nextPageToken |-> NoToken]

\* .where(status = "in_progress").orderBy(desc(startedAt)).limit(1); 0 = none
ExistingSync(rows) ==
    LET S == {r \in 1..Len(rows) : rows[r].status = "in_progress"}
    IN IF S = {} THEN 0 ELSE CHOOSE r \in S : \A q \in S : q <= r

\* SenderStats: no row for the sender
NoStatsRow ==
    [exists |-> FALSE, totalCount |-> 0, deletedByAppCount |-> 0,
     manuallyDeletedCount |-> 0, manuallyKeptCount |-> 0]

StatsColumns ==
    {"totalCount", "deletedByAppCount", "manuallyDeletedCount",
     "manuallyKeptCount"}

\* as NewStatsRow, with totalCount left at the column default
NewStatsRow_TotalDefault(column) ==
    [[NoStatsRow EXCEPT !.exists = TRUE] EXCEPT ![column] = 1]

\* db.insert(senderStats).values({totalCount: 1, <column>: 1, ...}); the
\* columns not named take their default 0
NewStatsRow(column) ==
    [[NoStatsRow EXCEPT !.exists = TRUE, !.totalCount = 1] EXCEPT ![column] = 1]

\* db.update(senderStats).set({<column>: existingStats[0].<column> + 1}):
\* only the named column is written, from the row that was read
UpdatedStatsRow(row, read, column) == [row EXCEPT ![column] = read[column] + 1]

\* the select found no row, and the insert meets a row: the unique index
\* SenderStats_googleAccountId_sender_key rejects it
StatsInsertRejected(row, read) == ~read.exists /\ row.exists

\* the write of updateSenderStats / recordDeletion / recordManualDeletion /
\* recordKeep after its select returned read
StatsAfterWrite(row, read, column) ==
    IF read.exists THEN UpdatedStatsRow(row, read, column)
                   ELSE NewStatsRow(column)

NoLocals ==
    [rec |-> 0, isResuming |-> FALSE, nextPageToken |-> NoToken,
     toProcess |-> <<>>, idx |-> 0, created |-> 0, updated |-> 0,
     errors |-> 0, processed |-> 0, inBatch |-> 0, existing |-> FALSE,
     statsRead |-> NoStatsRow, itemErr |-> "none"]

NoResp ==
    [rec |-> 0, status |-> 0, kind |-> "none", hasMore |-> FALSE, cause |-> "none"]

\* NextResponse.json(..., {status}); rec is progressId, the row worked on
Response(rec, code, kind, more) ==
    [rec |-> rec, status |-> code, kind |-> kind, hasMore |-> more,
     cause |-> "none"]

\* history: the error that was raised in the step that returned r
Caused(r, err) == [r EXCEPT !.cause = err]

Active(p) == pc[p] # "idle"

Callers == {"c1", "c2"}

\* call maps the callers that are between the select and the write of a
\* learning function to that call
NoCalls == [c \in {} |-> NoStatsRow]

\* no learning function is being called
LearnIdle ==
    /\ call = NoCalls
    /\ calls = 0
    /\ recorded = [s \in Senders |-> 0]

\* no function applied yet to the arguments drawn
NoFnOut == [applied |-> {}, category |-> <<>>, penalty |-> 0]

\* no arguments are drawn, no pure function is being exercised
FnIdle == fnIn = <<>> /\ fnOut = <<>>

\* POST suggest-deletes: no response yet
NoClassifyResp ==
    [status |-> 0, success |-> FALSE, evaluated |-> 0, updated |-> 0,
     candidates |-> 0]

NoRun ==
    [pc |-> "idle", messageList |-> <<>>, chunks |-> <<>>,
     classifications |-> <<>>, idx |-> 0, updatedCount |-> 0,
     candidatesCount |-> 0, errors |-> 0, response |-> NoClassifyResp]

\* Message columns aiCategory (default unknown), aiDeleteScore (null until
\* evaluated), aiDeleteReason, isDeleteCandidate; writes is history: the
\* number of updates of the row by classification
NoAiRow ==
    [writes |-> 0, aiCategory |-> <<"u", "n", "k", "n", "o", "w", "n">>,
     aiDeleteScore |-> 0, aiDeleteReason |-> "", isDeleteCandidate |-> FALSE]

\* no classification run has started
ClassifyIdle == run = NoRun /\ aiRows = <<>>

\* the user has connected no account
AccountsIdle == accounts = <<>>

\* confirm maps the slots in which POST confirm-delete is running to the
\* handler's position and locals
NoConfirm == [k \in {} |-> 0]

\* no message has decision columns the model follows, and no confirm-delete
\* request has been made
DecideIdle ==
    /\ msgFlags = <<>>
    /\ autoIncludeSenders = {}
    /\ classifier = "any"
    /\ confirm = NoConfirm
    /\ deleteBatches = <<>>
    /\ trashed = <<>>

\* no sync has run and none is running
SyncIdle ==
    /\ progress = <<>>
    /\ pc = [p \in Procs |-> "idle"]
    /\ loc = [p \in Procs |-> NoLocals]
    /\ resp = NoResp
    /\ invocations = 0
    /\ faults = 0
    /\ overlapped = FALSE

Init ==
    /\ mailboxSize \in 0..MaxMsgs
    /\ msgRows = [i \in MsgIds |-> 0]
    /\ senderStats = [s \in Senders |-> NoStatsRow]
    /\ SyncIdle
    /\ LearnIdle
    /\ ClassifyIdle
    /\ FnIdle
    /\ AccountsIdle
    /\ DecideIdle

----
(***************************************************************************)
(* Errors.  The handler tells errors apart by their message text; an error *)
(* is modelled by the branch its message selects.                          *)
(***************************************************************************)
\* errors of a database call in the outer try: a message that contains
\* "timeout" / "Task timed out" / "504" / "ETIMEDOUT", or any other message
DbFaults == {"timeout", "other"}

\* errors of listMessages, by the first branch of the inner catch they match
\* ("auth": the message contains "insufficient authentication" or "Invalid
\* Credentials"; "quota": it contains "quota" or "rate limit")
ListErrors == {"apiNotEnabled", "auth", "quota", "forbidden", "timeout", "other"}

\* outer catch: the status written to the loaded row
CatchStatus(fault) == IF fault = "timeout" THEN "timeout" ELSE "failed"

OuterCatchRows(rows, rec, fault) ==
    IF rec = 0 THEN rows ELSE [rows EXCEPT ![rec].status = CatchStatus(fault)]

OuterCatchResp(rec, fault) ==
    IF fault = "timeout" THEN Response(rec, 504, "timeout", FALSE)
                         ELSE Response(rec, 500, "failed", FALSE)

\* as ListErrorMarksFailed, without the 401 and 429 branches of the catch
ListErrorMarksFailed_NoAuthQuotaBranch(kind) ==
    kind \in {"auth", "quota", "timeout", "other"}

\* inner catch of listMessages: does the error fall through to "mark failed"?
ListErrorMarksFailed(kind) == kind \in {"timeout", "other"}

ListErrorResp(rec, kind) ==
    CASE kind = "apiNotEnabled" -> Response(rec, 403, "apiNotEnabled", FALSE)
      [] kind = "auth"          -> Response(rec, 401, "auth", FALSE)
      [] kind = "quota"         -> Response(rec, 429, "quota", FALSE)
      [] kind = "forbidden"     -> Response(rec, 403, "forbidden", FALSE)
      [] OTHER                  -> Response(rec, 500, "listFailed", FALSE)

\* as UniqueViolation, with the unique index dropped
UniqueViolation_NoIndex(rows, id) == FALSE

\* unique index Message_googleAccountId_gmailMessageId_key
UniqueViolation(rows, id) == rows[id] >= 1

----
(***************************************************************************)
(* Row updates of the handler                                              *)
(***************************************************************************)
PersistCounters(rows, rec, l) ==
    [rows EXCEPT ![rec].processedMessages = l.processed,
                 ![rec].created = l.created,
                 ![rec].updated = l.updated,
                 ![rec].errors = l.errors]

PersistWithToken(rows, rec, l) ==
    [PersistCounters(rows, rec, l) EXCEPT ![rec].nextPageToken = l.nextPageToken]

SetStatus(rows, rec, st) == [rows EXCEPT ![rec].status = st]

\* as ItemCatch, but leaving the loop: the rest of the sub-chunk is dropped
ItemCatch_Break(l, why) ==
    [l EXCEPT !.errors = @ + 1, !.processed = @ + 1, !.idx = Len(l.toProcess),
              !.itemErr = why, !.existing = FALSE,
              !.statsRead = NoStatsRow]

\* per-message catch: errors++, processed++, continue with the next message
ItemCatch(l, why) ==
    [l EXCEPT !.errors = @ + 1, !.processed = @ + 1, !.idx = @ + 1,
              !.itemErr = why, !.existing = FALSE,
              !.statsRead = NoStatsRow]

\* processed++; processedInThisBatch++
ItemDone(l) == [l EXCEPT !.processed = @ + 1, !.inBatch = @ + 1]

NextItem(l) == [l EXCEPT !.idx = @ + 1, !.existing = FALSE,
              !.statsRead = NoStatsRow]

CurId(p) == loc[p].toProcess[loc[p].idx + 1]

Return(p, r) ==
    /\ pc' = [pc EXCEPT ![p] = "idle"]
    /\ loc' = [loc EXCEPT ![p] = NoLocals]
    /\ resp' = r

\* an external call or a database call fails (at most MaxFaults times)
Fault == faults < MaxFaults /\ faults' = faults + 1

\* an exception reaches the outer catch of POST
Throw(p, fault) ==
    /\ Fault
    /\ progress' = OuterCatchRows(progress, loc[p].rec, fault)
    /\ Return(p, Caused(OuterCatchResp(loc[p].rec, fault), fault))

----
(***************************************************************************)
(* POST /api/gmail/sync                                                    *)
(***************************************************************************)
\* Invocation slots are interchangeable: a new invocation takes the first
\* free one.
FreeSlot(p) == p = "p1" \/ Active("p1")

\* the handler is entered and selects the latest in_progress row; the row it
\* finds is the snapshot progressRecord the rest of the invocation works on
\* (isResuming = TRUE); without one it goes on to insert a fresh row
PostStart(p) ==
    /\ pc[p] = "idle"
    /\ UNCHANGED notSyncVars
    /\ FreeSlot(p)
    /\ invocations' = invocations + 1
    /\ overlapped' = (overlapped \/ \E q \in Procs \ {p} : Active(q))
    /\ resp' = NoResp
    /\ LET r == ExistingSync(progress) IN
          /\ pc' = [pc EXCEPT ![p] = IF r = 0 THEN "open" ELSE "list"]
          /\ loc' = [loc EXCEPT ![p] =
                IF r = 0 THEN NoLocals
                ELSE [NoLocals EXCEPT !.rec = r, !.isResuming = TRUE,
                        !.nextPageToken = progress[r].nextPageToken,
                        !.created = progress[r].created,
                        !.updated = progress[r].updated,
                        !.errors = progress[r].errors,
                        !.processed = progress[r].processedMessages]]
    /\ UNCHANGED <<mailboxSize, progress, msgRows, senderStats, faults>>

\* no in_progress row was found: insert a fresh row with counters at zero
OpenProgress(p) ==
    /\ pc[p] = "open"
    /\ UNCHANGED notSyncVars
    /\ progress' = Append(progress, NewProgressRow)
    /\ loc' = [loc EXCEPT ![p].rec = Len(progress) + 1]
    /\ pc' = [pc EXCEPT ![p] = "list"]
    /\ resp' = NoResp
    /\ UNCHANGED <<mailboxSize, msgRows, senderStats, invocations, faults,
                   overlapped>>

\* getGmailClient(userId) throws: the run is marked failed, 500 is returned
\* (when it succeeds the handler goes on to listMessages)
GetGmailClientFails(p) ==
    /\ pc[p] = "list"
    /\ UNCHANGED notSyncVars
    /\ progress' = SetStatus(progress, loc[p].rec, "failed")
    /\ Return(p, Caused(Response(loc[p].rec, 500, "clientFailed", FALSE), "client"))
    /\ Fault
    /\ UNCHANGED <<mailboxSize, msgRows, senderStats, invocations,
                   overlapped>>

\* listMessages with the stored token; the inner catch; the empty page
ListMessages(p) ==
    /\ pc[p] = "list"
    /\ UNCHANGED notSyncVars
    /\ UNCHANGED <<mailboxSize, msgRows, senderStats, invocations,
                   overlapped>>
    /\ \/ LET gm == ListPageIds(mailboxSize, MAX_MESSAGES_PER_API_CALL,
                                loc[p].nextPageToken)
              nt == ListNextToken(mailboxSize, MAX_MESSAGES_PER_API_CALL,
                                  loc[p].nextPageToken)
          IN /\ UNCHANGED faults
             /\ IF Len(gm) = 0
                THEN /\ progress' = SetStatus(progress, loc[p].rec, "completed")
                     /\ Return(p, Response(loc[p].rec, 200, "completed", FALSE))
                ELSE /\ loc' = [loc EXCEPT
                            ![p].toProcess = Slice(gm, MESSAGES_PER_CHUNK),
                            ![p].nextPageToken = nt]
                     /\ pc' = [pc EXCEPT ![p] = "loop"]
                     /\ resp' = NoResp
                     /\ UNCHANGED progress
       \/ \E kind \in ListErrors :
            /\ Fault
            /\ progress' = IF ListErrorMarksFailed(kind)
                           THEN SetStatus(progress, loc[p].rec, "failed")
                           ELSE progress
            /\ Return(p, Caused(ListErrorResp(loc[p].rec, kind), kind))

\* elapsed > maxExecutionTime before a message: persist and return early
TimeBudgetExit(p) ==
    /\ pc[p] = "loop"
    /\ UNCHANGED notSyncVars
    /\ loc[p].idx < Len(loc[p].toProcess)
    /\ UNCHANGED <<mailboxSize, msgRows, senderStats, invocations, faults,
                   overlapped>>
    /\ progress' = PersistWithToken(progress, loc[p].rec, loc[p])
    /\ Return(p, Response(loc[p].rec, 200, "timeExit", loc[p].nextPageToken # NoToken))

\* getMessageMetadata, getThreadDetails, then the select of the Message row
FetchAndSelect(p) ==
    /\ pc[p] = "loop"
    /\ UNCHANGED notSyncVars
    /\ loc[p].idx < Len(loc[p].toProcess)
    /\ resp' = NoResp
    /\ UNCHANGED <<mailboxSize, progress, msgRows, senderStats,
                   invocations, overlapped>>
    /\ \/ /\ Fault
          /\ loc' = [loc EXCEPT ![p] = ItemCatch(@, "fetch")]
          /\ UNCHANGED pc
       \/ /\ loc' = [loc EXCEPT ![p].existing = (msgRows[CurId(p)] >= 1),
                                ![p].itemErr = "none"]
          /\ pc' = [pc EXCEPT ![p] = "upsert"]
          /\ UNCHANGED faults

\* tail of the try block: processed++, and the progress update every
\* PROGRESS_EVERY messages, which sits inside the per-message try
FinishItem(p, l) ==
    LET d == ItemDone(l) IN
    /\ pc' = [pc EXCEPT ![p] = "loop"]
    /\ loc' = [loc EXCEPT ![p] = NextItem(d)]
    /\ progress' = IF d.inBatch % PROGRESS_EVERY = 0
                   THEN PersistCounters(progress, d.rec, d)
                   ELSE progress

\* the row exists: update it, updated++
UpdateExisting(p) ==
    /\ pc[p] = "upsert"
    /\ UNCHANGED notSyncVars
    /\ loc[p].existing
    /\ FinishItem(p, [loc[p] EXCEPT !.updated = @ + 1])
    /\ resp' = NoResp
    /\ UNCHANGED <<mailboxSize, msgRows, senderStats, invocations, faults,
                   overlapped>>

\* the row does not exist: insert it, created++; the unique index rejects a
\* second row for the id.  updateSenderStats then selects the sender's row.
InsertMessage(p) ==
    /\ pc[p] = "upsert"
    /\ UNCHANGED notSyncVars
    /\ ~loc[p].existing
    /\ resp' = NoResp
    /\ UNCHANGED <<mailboxSize, progress, senderStats, invocations, faults,
                   overlapped>>
    /\ IF UniqueViolation(msgRows, CurId(p))
       THEN /\ loc' = [loc EXCEPT ![p] = ItemCatch(@, "uniqueMessage")]
            /\ pc' = [pc EXCEPT ![p] = "loop"]
            /\ UNCHANGED msgRows
       ELSE /\ msgRows' = [msgRows EXCEPT ![CurId(p)] = @ + 1]
            /\ loc' = [loc EXCEPT ![p].created = @ + 1,
                       ![p].statsRead = senderStats[SenderOf(CurId(p))]]
            /\ pc' = [pc EXCEPT ![p] = "statsWrite"]

\* updateSenderStats, the write: totalCount = (count read) + 1, or insert with 1; the
\* unique index SenderStats_googleAccountId_sender_key rejects a second row
StatsWrite(p) ==
    LET s == SenderOf(CurId(p)) IN
    /\ pc[p] = "statsWrite"
    /\ UNCHANGED notSyncVars
    /\ resp' = NoResp
    /\ UNCHANGED <<mailboxSize, msgRows, invocations, faults,
                   overlapped>>
    /\ IF StatsInsertRejected(senderStats[s], loc[p].statsRead)
       THEN /\ loc' = [loc EXCEPT ![p] = ItemCatch(@, "uniqueSender")]
            /\ pc' = [pc EXCEPT ![p] = "loop"]
            /\ UNCHANGED <<progress, senderStats>>
       ELSE /\ senderStats' = [senderStats EXCEPT ![s] =
                    StatsAfterWrite(@, loc[p].statsRead, "totalCount")]
            /\ FinishItem(p, loc[p])

\* after the sub-chunk: persist counters and token; hasMore if a token remains
PersistAfterBatch(p) ==
    /\ pc[p] = "loop"
    /\ UNCHANGED notSyncVars
    /\ loc[p].idx = Len(loc[p].toProcess)
    /\ UNCHANGED <<mailboxSize, msgRows, senderStats, invocations,
                   overlapped>>
    /\ \/ /\ progress' = PersistWithToken(progress, loc[p].rec, loc[p])
          /\ UNCHANGED faults
          /\ IF loc[p].nextPageToken # NoToken
             THEN Return(p, Response(loc[p].rec, 200, "more", TRUE))
             ELSE /\ pc' = [pc EXCEPT ![p] = "complete"]
                  /\ resp' = NoResp
                  /\ UNCHANGED loc
       \/ \E fault \in DbFaults : Throw(p, fault)

\* no token remains: mark the run completed
MarkCompleted(p) ==
    /\ pc[p] = "complete"
    /\ UNCHANGED notSyncVars
    /\ UNCHANGED <<mailboxSize, msgRows, senderStats, invocations,
                   overlapped>>
    /\ \/ /\ progress' = SetStatus(progress, loc[p].rec, "completed")
          /\ UNCHANGED faults
          /\ Return(p, Response(loc[p].rec, 200, "completed", FALSE))
       \/ \E fault \in DbFaults : Throw(p, fault)

Step(p) ==
    \/ OpenProgress(p)
    \/ GetGmailClientFails(p)
    \/ ListMessages(p)
    \/ TimeBudgetExit(p)
    \/ FetchAndSelect(p)
    \/ UpdateExisting(p)
    \/ InsertMessage(p)
    \/ StatsWrite(p)
    \/ PersistAfterBatch(p)
    \/ MarkCompleted(p)

\* Invocations may overlap: the poller of the settings page posts again
\* while an earlier POST is still running.
Next ==
    \E p \in Procs :
        \/ invocations < MaxInvocations /\ PostStart(p)
        \/ Step(p)

Spec == Init /\ [][Next]_vars

\* A caller that awaits each POST before it posts again: one slot.
NextSeq ==
    \/ invocations < MaxSeqInvocations /\ PostStart("p1")
    \/ Step("p1")

SpecSeq == Init /\ [][NextSeq]_vars

----
(***************************************************************************)
(* Part 2.  The learning functions recordDeletion, recordManualDeletion    *)
(* and recordKeep, and updateSenderStats of the sync route, on the         *)
(* SenderStats rows of one account.  Each is a select of the sender's row  *)
(* followed by an update or an insert; confirm-delete, manual-delete and   *)
(* sync requests run at the same time, so a call is two steps.             *)
(***************************************************************************)
\* The state the learning calls start from: the messages 1..mailboxSize are
\* in the store and SenderStats has no row yet.
InitLearn ==
    /\ mailboxSize \in 1..MaxMsgs
    /\ msgRows = [i \in MsgIds |-> IF i <= mailboxSize THEN 1 ELSE 0]
    /\ senderStats = [s \in Senders |-> NoStatsRow]
    /\ SyncIdle
    /\ LearnIdle
    /\ ClassifyIdle
    /\ FnIdle
    /\ AccountsIdle
    /\ DecideIdle

\* the column a function increments
ColumnOf(op) ==
    CASE op = "recordDeletion"       -> "deletedByAppCount"
      [] op = "recordManualDeletion" -> "manuallyDeletedCount"
      [] op = "recordKeep"           -> "manuallyKeptCount"
      [] op = "updateSenderStats"    -> "totalCount"

DecisionOps == {"recordDeletion", "recordManualDeletion", "recordKeep"}

\* caller slots are interchangeable: a new call takes the first free one
FreeCaller(c) == c \notin DOMAIN call /\ (c = "c1" \/ "c1" \in DOMAIN call)

\* the select of the sender's row: existingStats
SelectStats(c, op, sender) ==
    /\ FreeCaller(c)
    /\ calls < MaxCalls
    /\ calls' = calls + 1
    /\ call' = [d \in DOMAIN call \cup {c} |->
                    IF d = c THEN [op |-> op, sender |-> sender,
                                   read |-> senderStats[sender]]
                             ELSE call[d]]
    /\ UNCHANGED <<msgRows, senderStats, recorded, notLearnVars>>

\* messageResult.length === 0: the function returns without a write
MessageMissing(c, id) ==
    /\ FreeCaller(c)
    /\ calls < MaxCalls
    /\ msgRows[id] = 0
    /\ calls' = calls + 1
    /\ UNCHANGED <<call, msgRows, senderStats, recorded, notLearnVars>>

\* the first half of a learning function called for message id: the select
\* of the message, then the select of the sender's row
RecordSelect(c, op, id) ==
    \/ MessageMissing(c, id)
    \/ msgRows[id] >= 1 /\ SelectStats(c, op, SenderOf(id))

RecordDeletion(c) == \E id \in MsgIds : RecordSelect(c, "recordDeletion", id)

RecordManualDeletion(c) ==
    \E id \in MsgIds : RecordSelect(c, "recordManualDeletion", id)

RecordKeep(c) == \E id \in MsgIds : RecordSelect(c, "recordKeep", id)

\* updateSenderStats, called by sync for a message of the sender it has just
\* inserted: the select
UpdateSenderStats(c) ==
    \E s \in Senders : SelectStats(c, "updateSenderStats", s)

\* the second half: update the row that was read (where id = its id), or
\* insert a row when none was read; a rejected insert throws
WriteStats(c) ==
    LET s == call[c].sender
        op == call[c].op
    IN /\ c \in DOMAIN call
       /\ call' = [d \in DOMAIN call \ {c} |-> call[d]]
       /\ IF StatsInsertRejected(senderStats[s], call[c].read)
          THEN UNCHANGED <<senderStats, recorded>>
          ELSE /\ senderStats' = [senderStats EXCEPT ![s] =
                        StatsAfterWrite(@, call[c].read, ColumnOf(op))]
               /\ recorded' = [recorded EXCEPT ![s] =
                        IF op \in DecisionOps THEN @ + 1 ELSE @]
       /\ UNCHANGED <<calls, msgRows, notLearnVars>>

NextLearn ==
    \E c \in Callers :
        \/ RecordDeletion(c)
        \/ RecordManualDeletion(c)
        \/ RecordKeep(c)
        \/ UpdateSenderStats(c)
        \/ WriteStats(c)

SpecLearn == InitLearn /\ [][NextLearn]_vars

(***************************************************************************)
(* The penalty of a sender, in hundredths (100 is the multiplier 1.0).     *)
(***************************************************************************)
\* as CalculatePenalty, with keepRatio > 0.8 in place of keepRatio >= 0.8
CalculatePenalty_Strict(stat) ==
    LET totalActions == stat.manuallyKeptCount + stat.deletedByAppCount
                            + stat.manuallyDeletedCount
    IN IF totalActions = 0 THEN 100
       ELSE IF stat.manuallyKeptCount * 10 > 8 * totalActions THEN 50
       ELSE IF stat.manuallyKeptCount * 10 >= 5 * totalActions THEN 75
       ELSE 100

\* calculatePenalty(stat); keepRatio = manuallyKeptCount / totalActions is
\* compared with 0.8 and 0.5, here with both sides multiplied by
\* 10 * totalActions
CalculatePenalty(stat) ==
    LET totalActions == stat.manuallyKeptCount + stat.deletedByAppCount
                            + stat.manuallyDeletedCount
    IN IF totalActions = 0 THEN 100
       ELSE IF stat.manuallyKeptCount * 10 >= 8 * totalActions THEN 50
       ELSE IF stat.manuallyKeptCount * 10 >= 5 * totalActions THEN 75
       ELSE 100

\* getSenderPenalty(googleAccountId, sender)
GetSenderPenalty(store, sender) ==
    IF ~store[sender].exists \/ store[sender].totalCount = 0
    THEN 100
    ELSE CalculatePenalty(store[sender])

SeqRange(q) == {q[i] : i \in 1..Len(q)}

\* getBatchSenderPenalties(googleAccountId, senders): the Map it returns
GetBatchSenderPenalties(store, senders) ==
    IF Len(senders) = 0 THEN <<>>
    ELSE LET stats == {s \in Senders : store[s].exists /\ s \in SeqRange(senders)}
             penaltyMap == [s \in stats |-> CalculatePenalty(store[s])]
         IN [s \in SeqRange(senders) |->
                IF s \in DOMAIN penaltyMap THEN penaltyMap[s] ELSE 100]

----
(***************************************************************************)
(* Part 3.  The pure functions normalizeCategory and calculatePenalty on   *)
(* drawn arguments.  A string is the sequence of its characters.           *)
(***************************************************************************)
UpperCaseLetters ==
    <<"A", "B", "C", "D", "E", "F", "G", "H", "I", "J", "K", "L", "M",
      "N", "O", "P", "Q", "R", "S", "T", "U", "V", "W", "X", "Y", "Z">>

LowerCaseLetters ==
    <<"a", "b", "c", "d", "e", "f", "g", "h", "i", "j", "k", "l", "m",
      "n", "o", "p", "q", "r", "s", "t", "u", "v", "w", "x", "y", "z">>

LowerChar(ch) ==
    IF \E i \in DOMAIN UpperCaseLetters : UpperCaseLetters[i] = ch
    THEN LowerCaseLetters[CHOOSE i \in DOMAIN UpperCaseLetters :
                                UpperCaseLetters[i] = ch]
    ELSE ch

\* String.prototype.toLowerCase
ToLowerCase(str) == [i \in 1..Len(str) |-> LowerChar(str[i])]

\* String.prototype.includes
Includes(str, sub) ==
    \E i \in 0..(Len(str) - Len(sub)) : SubSeq(str, i + 1, i + Len(sub)) = sub

UNKNOWN == <<"u", "n", "k", "n", "o", "w", "n">>

PERSONAL == <<"p", "e", "r", "s", "o", "n", "a", "l">>

WORK == <<"w", "o", "r", "k">>

RECEIPT == <<"r", "e", "c", "e", "i", "p", "t">>

PROMO == <<"p", "r", "o", "m", "o">>

NOTIFICATION == <<"n", "o", "t", "i", "f", "i", "c", "a", "t", "i", "o", "n">>

SPAMLIKE == <<"s", "p", "a", "m", "L", "i", "k", "e">>

\* ClassificationResult["category"], the enum of the schema
Categories == {UNKNOWN, PERSONAL, WORK, RECEIPT, PROMO, NOTIFICATION, SPAMLIKE}

\* as NormalizeCategory, returning the lowered string when nothing matches
NormalizeCategory_PassThrough(category) ==
    LET lower == ToLowerCase(category) IN
    IF lower \in {PERSONAL, WORK, RECEIPT, PROMO, NOTIFICATION, SPAMLIKE, UNKNOWN}
    THEN lower
    ELSE IF \/ Includes(lower, <<"i", "m", "p", "o", "r", "t", "a", "n", "t">>)
            \/ Includes(lower, <<"u", "r", "g", "e", "n", "t">>)
            \/ Includes(lower, <<"c", "r", "i", "t", "i", "c", "a", "l">>)
    THEN WORK
    ELSE IF \/ Includes(lower, <<"n", "e", "w", "s", "l", "e", "t", "t", "e", "r">>)
            \/ Includes(lower, <<"m", "a", "r", "k", "e", "t", "i", "n", "g">>)
    THEN PROMO
    ELSE IF \/ Includes(lower, <<"a", "l", "e", "r", "t">>)
            \/ Includes(lower, <<"r", "e", "m", "i", "n", "d", "e", "r">>)
    THEN NOTIFICATION
    ELSE lower

\* normalizeCategory(category).  The list the lowered string is looked up in
\* holds "spamLike" with its capital L.
NormalizeCategory(category) ==
    LET lower == ToLowerCase(category) IN
    IF lower \in {PERSONAL, WORK, RECEIPT, PROMO, NOTIFICATION, SPAMLIKE, UNKNOWN}
    THEN lower
    ELSE IF \/ Includes(lower, <<"i", "m", "p", "o", "r", "t", "a", "n", "t">>)
            \/ Includes(lower, <<"u", "r", "g", "e", "n", "t">>)
            \/ Includes(lower, <<"c", "r", "i", "t", "i", "c", "a", "l">>)
    THEN WORK
    ELSE IF \/ Includes(lower, <<"n", "e", "w", "s", "l", "e", "t", "t", "e", "r">>)
            \/ Includes(lower, <<"m", "a", "r", "k", "e", "t", "i", "n", "g">>)
    THEN PROMO
    ELSE IF \/ Includes(lower, <<"a", "l", "e", "r", "t">>)
            \/ Includes(lower, <<"r", "e", "m", "i", "n", "d", "e", "r">>)
    THEN NOTIFICATION
    ELSE UNKNOWN

\* category strings a classifier may answer with: the names of the enum,
\* other spellings of them, and names outside the enum
CategoryInputs ==
    Categories \cup
    {<<"P", "e", "r", "s", "o", "n", "a", "l">>,
     <<"W", "O", "R", "K">>,
     <<"s", "p", "a", "m", "l", "i", "k", "e">>,
     <<"S", "p", "a", "m">>,
     <<"I", "m", "p", "o", "r", "t", "a", "n", "t">>,
     <<"n", "o", "t", " ", "u", "r", "g", "e", "n", "t">>,
     <<"C", "R", "I", "T", "I", "C", "A", "L">>,
     <<"N", "e", "w", "s", "l", "e", "t", "t", "e", "r">>,
     <<"e", "-", "m", "a", "r", "k", "e", "t", "i", "n", "g">>,
     <<"a", "l", "e", "r", "t", "s">>,
     <<"R", "e", "m", "i", "n", "d", "e", "r">>,
     <<"p", "r", "o", "m", "o", "t", "i", "o", "n", "s">>,
     <<"s", "o", "c", "i", "a", "l">>,
     <<>>}

\* SenderStats rows with counters up to MaxCount
StatInputs ==
    {[exists |-> TRUE, totalCount |-> 1, deletedByAppCount |-> a,
      manuallyDeletedCount |-> m, manuallyKeptCount |-> k] :
        a \in 0..MaxCount, m \in 0..MaxCount, k \in 0..MaxCount}

InitFn ==
    /\ fnIn \in [category : CategoryInputs, stat : StatInputs]
    /\ fnOut = NoFnOut
    /\ mailboxSize = 0
    /\ msgRows = [i \in MsgIds |-> 0]
    /\ senderStats = [s \in Senders |-> NoStatsRow]
    /\ SyncIdle
    /\ LearnIdle
    /\ ClassifyIdle
    /\ AccountsIdle
    /\ DecideIdle

ApplyNormalizeCategory ==
    /\ "normalizeCategory" \notin fnOut.applied
    /\ fnOut' = [fnOut EXCEPT !.applied = @ \cup {"normalizeCategory"},
                              !.category = NormalizeCategory(fnIn.category)]
    /\ UNCHANGED <<fnIn, msgRows, senderStats, syncVars, learnVars,
                   classifyVars, accountVars, decideVars>>

ApplyCalculatePenalty ==
    /\ "calculatePenalty" \notin fnOut.applied
    /\ fnOut' = [fnOut EXCEPT !.applied = @ \cup {"calculatePenalty"},
                              !.penalty = CalculatePenalty(fnIn.stat)]
    /\ UNCHANGED <<fnIn, msgRows, senderStats, syncVars, learnVars,
                   classifyVars, accountVars, decideVars>>

NextFn == ApplyNormalizeCategory \/ ApplyCalculatePenalty

SpecFn == InitFn /\ [][NextFn]_vars

----
(***************************************************************************)
(* Part 4.  POST suggest-deletes: select the messages to evaluate, classify *)
(* them in chunks (classifyEmailsForDeletion, classifyChunk), write each    *)
(* classification to its Message row, answer.  Scores and penalties are in *)
(* hundredths.  The store holds the messages 1..mailboxSize, numbered in   *)
(* internalDate order (1 is the oldest).                                   *)
(***************************************************************************)
\* stores the run may meet: per sender no row, or a row recordKeep and
\* recordDeletion have written (penalty 0.5 for s1, 0.75 for s2)
KeptRow(k, a) ==
    [NewStatsRow("totalCount") EXCEPT !.manuallyKeptCount = k,
                                      !.deletedByAppCount = a]

ClassifyStores ==
    {[s \in Senders |-> IF s \in have THEN (IF s = "s1" THEN KeptRow(1, 0)
                                                        ELSE KeptRow(1, 1))
                                      ELSE NoStatsRow] : have \in SUBSET Senders}

\* Message columns userId / googleAccountId (mine: they are the caller's and
\* its active account's), isDeletedByApp, isManuallyKept and internalDate
\* (old: before the cutoff date, MIN_AGE_DAYS ago); here a row the run selects
EvaluableFlags ==
    [mine |-> TRUE, isDeletedByApp |-> FALSE, isManuallyKept |-> FALSE,
     old |-> TRUE]

\* the store of a run in which every message is selected
InitClassify ==
    /\ mailboxSize \in 0..MaxBatch
    /\ msgRows = [i \in MsgIds |-> IF i <= mailboxSize THEN 1 ELSE 0]
    /\ senderStats \in ClassifyStores
    /\ SyncIdle
    /\ LearnIdle
    /\ run = NoRun
    /\ aiRows = [i \in 1..mailboxSize |-> NoAiRow]
    /\ FnIdle
    /\ AccountsIdle
    /\ msgFlags = [i \in 1..mailboxSize |-> EvaluableFlags]
    /\ autoIncludeSenders = {}
    /\ classifier = "any"
    /\ confirm = NoConfirm
    /\ deleteBatches = <<>>
    /\ trashed = <<>>

\* .limit(BATCH_SIZE)
BATCH_SIZE == MaxBatch

\* as ToEvaluate, without the isManuallyKept = false condition
ToEvaluate_KeptIncluded(flags, senders) ==
    {i \in DOMAIN flags :
        /\ flags[i].mine
        /\ ~flags[i].isDeletedByApp
        /\ flags[i].old \/ SenderOf(i) \in senders}

\* .where(and(...baseConditions)): the caller's and the account's, not
\* deleted by the app, not manually kept, and older than the cutoff date or
\* from an auto-include sender
ToEvaluate(flags, senders) ==
    {i \in DOMAIN flags :
        /\ flags[i].mine
        /\ ~flags[i].isDeletedByApp
        /\ ~flags[i].isManuallyKept
        /\ flags[i].old \/ SenderOf(i) \in senders}

\* .orderBy(asc(messages.internalDate))
RECURSIVE OldestFirst(_)
OldestFirst(S) ==
    IF S = {} THEN <<>>
    ELSE LET oldest == CHOOSE i \in S : \A j \in S : i <= j
         IN <<oldest>> \o OldestFirst(S \ {oldest})

\* messageList
MessageList(flags, senders) ==
    Slice(OldestFirst(ToEvaluate(flags, senders)), BATCH_SIZE)

\* chunks.push(emails.slice(i, i + CHUNK_SIZE))
NumChunks(n) == (n + CHUNK_SIZE - 1) \div CHUNK_SIZE

ChunkEmails(emails, c) ==
    SubSeq(emails, (c - 1) * CHUNK_SIZE + 1, Min(Len(emails), c * CHUNK_SIZE))

PendingChunk == [state |-> "pending", results |-> <<>>]

\* as DefaultResults, with the per-chunk catch returning nothing
DefaultResults_Empty(emails) == <<>>

\* the catch of classifyEmailsForDeletion: one default result per email
DefaultResults(emails) ==
    [i \in 1..Len(emails) |->
        [gmailMessageId |-> emails[i], category |-> UNKNOWN, deleteScore |-> 0,
         reason |-> "Classification failed", raw |-> 0]]

\* classifyChunk: senderPenalties.get(email.sender) || 1.0 for the email
\* with the classification's id, 1.0 when the chunk has no such email
PenaltyOf(emails, store, id) ==
    IF id \in SeqRange(emails)
    THEN LET uniqueSenders == [i \in 1..Len(emails) |-> SenderOf(emails[i])]
         IN GetBatchSenderPenalties(store, uniqueSenders)[SenderOf(id)]
    ELSE 100

\* raw × penalty, both in hundredths
Adjusted(deleteScore, penalty) == (deleteScore * penalty) \div 100

\* the result of one classification of a schema-validated answer; raw is
\* history, the score the classifier gave
ValidatedResult(c, penalty) ==
    [gmailMessageId |-> c.gmailMessageId,
     category |-> NormalizeCategory(c.category),
     deleteScore |-> Min(100, Adjusted(c.deleteScore, penalty)),
     reason |-> IF penalty < 100 THEN "model (Adjusted)" ELSE "model",
     raw |-> c.deleteScore]

\* the result of one classification parsed from error.text
FallbackResult(c, penalty) ==
    [gmailMessageId |-> c.gmailMessageId,
     category |-> NormalizeCategory(c.category),
     deleteScore |-> Min(100, Adjusted(c.deleteScore, penalty)),
     reason |-> "model",
     raw |-> c.deleteScore]

\* The classifier's answers.  The ids of an answer: those submitted; one
\* omitted; one repeated; one more that was not submitted (an id of another
\* chunk, or of no message of the run); none.
AnswerIds(emails, n) ==
    {emails, Tail(emails), emails \o <<emails[1]>>, <<>>}
        \cup {emails \o <<f>> : f \in (1..(n + 1)) \ SeqRange(emails)}

\* what a schema-validated answer says of a message: a category of the enum
\* and a score in [0, 1]
ObjectSamples ==
    {[category |-> PROMO, deleteScore |-> 80],
     [category |-> SPAMLIKE, deleteScore |-> 100],
     [category |-> PERSONAL, deleteScore |-> 0]}

\* what an answer that failed validation says: any string, any number
TextSamples ==
    {[category |-> <<"N", "e", "w", "s", "l", "e", "t", "t", "e", "r">>,
      deleteScore |-> 120],
     [category |-> <<"s", "o", "c", "i", "a", "l">>, deleteScore |-> 80],
     [category |-> PROMO, deleteScore |-> -20]}

Classification(id, sample) ==
    [gmailMessageId |-> id, category |-> sample.category,
     deleteScore |-> sample.deleteScore]

\* object.classifications.map(...)
ValidatedResults(emails, store, ids, sample) ==
    [i \in 1..Len(ids) |->
        ValidatedResult(Classification(ids[i], sample),
                        PenaltyOf(emails, store, ids[i]))]

\* parsed.classifications.map(...)
FallbackResults(emails, store, ids, sample) ==
    [i \in 1..Len(ids) |->
        FallbackResult(Classification(ids[i], sample),
                       PenaltyOf(emails, store, ids[i]))]

ClassifyResponse(code, ok, evaluated, updated, candidates) ==
    [status |-> code, success |-> ok, evaluated |-> evaluated,
     updated |-> updated, candidates |-> candidates]

\* the handler selects messageList; an empty list is answered at once; a
\* failing select reaches the outer catch.  The history aiRows[i].writes
\* counts the writes of the run that starts here.
SuggestDeletes ==
    /\ run.pc = "idle"
    /\ aiRows' = [i \in DOMAIN aiRows |-> [aiRows[i] EXCEPT !.writes = 0]]
    /\ UNCHANGED <<mailboxSize, msgRows, senderStats, notClassifyVars>>
    /\ \/ /\ UNCHANGED faults
          /\ LET messageList == MessageList(msgFlags, autoIncludeSenders) IN
             IF Len(messageList) = 0
             THEN run' = [run EXCEPT !.pc = "done",
                            !.response = ClassifyResponse(200, TRUE, 0, 0, 0)]
             ELSE run' = [run EXCEPT !.pc = "classify",
                            !.messageList = messageList,
                            !.chunks = [c \in 1..NumChunks(Len(messageList)) |->
                                            PendingChunk]]
       \/ /\ Fault
          /\ run' = [run EXCEPT !.pc = "done",
                        !.response = ClassifyResponse(500, FALSE, 0, 0, 0)]

\* one chunk promise of classifyEmailsForDeletion settles: classifyChunk
\* returns the mapped answer (validated, or parsed from error.text), or it
\* throws and the catch returns the default results
ClassifyChunk(c) ==
    /\ run.pc = "classify"
    /\ c \in DOMAIN run.chunks
    /\ run.chunks[c].state = "pending"
    /\ UNCHANGED <<mailboxSize, msgRows, senderStats, aiRows, faults,
                   notClassifyVars>>
    /\ LET emails == ChunkEmails(run.messageList, c)
           answers == IF classifier = "answers"
                      THEN {emails} ELSE AnswerIds(emails, mailboxSize)
       IN
       \/ \E ids \in answers, sample \in ObjectSamples :
            run' = [run EXCEPT !.chunks[c] =
                [state |-> "done",
                 results |-> ValidatedResults(emails, senderStats, ids, sample)]]
       \/ /\ classifier = "any"
          /\ \E ids \in answers, sample \in TextSamples :
                run' = [run EXCEPT !.chunks[c] =
                    [state |-> "done",
                     results |-> FallbackResults(emails, senderStats, ids, sample)]]
       \/ /\ classifier = "any"
          /\ run' = [run EXCEPT !.chunks[c] =
                [state |-> "failed", results |-> DefaultResults(emails)]]

RECURSIVE Flat(_, _)
Flat(chunks, c) ==
    IF c > Len(chunks) THEN <<>> ELSE chunks[c].results \o Flat(chunks, c + 1)

\* Promise.all(chunkPromises), chunkResults.flat(); no classification at
\* all is answered with 500
AwaitChunks ==
    /\ run.pc = "classify"
    /\ \A c \in DOMAIN run.chunks : run.chunks[c].state # "pending"
    /\ UNCHANGED <<mailboxSize, msgRows, senderStats, aiRows, faults,
                   notClassifyVars>>
    /\ LET classifications == Flat(run.chunks, 1) IN
       IF Len(classifications) = 0
       THEN run' = [run EXCEPT !.pc = "done",
                      !.response = ClassifyResponse(500, FALSE, 0, 0, 0)]
       ELSE run' = [run EXCEPT !.pc = "update",
                      !.classifications = classifications]

\* one update promise: find the message of the classification, count a
\* candidate, update the row; a failing update is caught and counted
UpdateMessage ==
    /\ run.pc = "update"
    /\ run.idx < Len(run.classifications)
    /\ UNCHANGED <<mailboxSize, msgRows, senderStats, notClassifyVars>>
    /\ LET classification == run.classifications[run.idx + 1]
           id == classification.gmailMessageId
           isDeleteCandidate ==
               classification.deleteScore >= DELETE_SCORE_THRESHOLD
           counted == IF isDeleteCandidate THEN run.candidatesCount + 1
                                           ELSE run.candidatesCount
       IN IF id \notin SeqRange(run.messageList)
          THEN /\ run' = [run EXCEPT !.idx = @ + 1, !.errors = @ + 1]
               /\ UNCHANGED <<aiRows, faults>>
          ELSE \/ /\ aiRows' = [aiRows EXCEPT ![id] =
                        [writes |-> @.writes + 1,
                         aiCategory |-> classification.category,
                         aiDeleteScore |-> classification.deleteScore,
                         aiDeleteReason |-> classification.reason,
                         isDeleteCandidate |-> isDeleteCandidate]]
                  /\ run' = [run EXCEPT !.idx = @ + 1,
                                !.updatedCount = @ + 1,
                                !.candidatesCount = counted]
                  /\ UNCHANGED faults
               \/ /\ Fault
                  /\ run' = [run EXCEPT !.idx = @ + 1, !.errors = @ + 1,
                                !.candidatesCount = counted]
                  /\ UNCHANGED aiRows

\* Promise.all(updatePromises), then the answer
SuggestDeletesRespond ==
    /\ run.pc = "update"
    /\ run.idx = Len(run.classifications)
    /\ run' = [run EXCEPT !.pc = "done",
                  !.response = ClassifyResponse(200, TRUE, Len(run.messageList),
                                    run.updatedCount, run.candidatesCount)]
    /\ UNCHANGED <<mailboxSize, msgRows, senderStats, aiRows, faults,
                   notClassifyVars>>

NextClassify ==
    \/ SuggestDeletes
    \/ \E c \in 1..NumChunks(MaxBatch) : ClassifyChunk(c)
    \/ AwaitChunks
    \/ UpdateMessage
    \/ SuggestDeletesRespond

SpecClassify == InitClassify /\ [][NextClassify]_vars

(***************************************************************************)
(* The selection query on stores that hold messages of every kind.         *)
(***************************************************************************)
\* the caller's message not yet decided on, a message of another user or
\* account, a message the app has deleted, a message the user has kept
DecisionKinds ==
    {[mine |-> TRUE, isDeletedByApp |-> FALSE, isManuallyKept |-> FALSE],
     [mine |-> FALSE, isDeletedByApp |-> FALSE, isManuallyKept |-> FALSE],
     [mine |-> TRUE, isDeletedByApp |-> TRUE, isManuallyKept |-> FALSE],
     [mine |-> TRUE, isDeletedByApp |-> FALSE, isManuallyKept |-> TRUE]}

\* the decision columns of the messages 1..n: any kinds, and the messages
\* up to some message are older than the cutoff date
FlagStores(n) ==
    {[i \in 1..n |-> [mine |-> kinds[i].mine,
                      isDeletedByApp |-> kinds[i].isDeletedByApp,
                      isManuallyKept |-> kinds[i].isManuallyKept,
                      old |-> i <= cutoff]] :
        kinds \in [1..n -> DecisionKinds], cutoff \in 0..n}

InitSelect ==
    /\ mailboxSize \in 0..MaxMsgs
    /\ msgRows = [i \in MsgIds |-> IF i <= mailboxSize THEN 1 ELSE 0]
    /\ senderStats = [s \in Senders |-> NoStatsRow]
    /\ SyncIdle
    /\ LearnIdle
    /\ ClassifyIdle
    /\ fnIn = <<>>
    /\ fnOut = [applied |-> {}, messageList |-> <<>>]
    /\ AccountsIdle
    /\ msgFlags \in FlagStores(mailboxSize)
    /\ autoIncludeSenders \in SUBSET Senders
    /\ classifier = "any"
    /\ confirm = NoConfirm
    /\ deleteBatches = <<>>
    /\ trashed = <<>>

\* the select of messageList
ApplyMessageList ==
    /\ "messageList" \notin fnOut.applied
    /\ fnOut' = [applied |-> {"messageList"},
                 messageList |-> MessageList(msgFlags, autoIncludeSenders)]
    /\ UNCHANGED <<fnIn, msgRows, senderStats, syncVars, learnVars,
                   classifyVars, accountVars, decideVars>>

SpecSelect == InitSelect /\ [][ApplyMessageList]_vars

(***************************************************************************)
(* Repeated runs with a classifier that answers.  Every message of the     *)
(* store is one the run may select; the client posts again when a run has  *)
(* answered.  No decision is made between the runs.                        *)
(***************************************************************************)
InitRuns ==
    /\ mailboxSize \in 0..MaxMsgs
    /\ msgRows = [i \in MsgIds |-> IF i <= mailboxSize THEN 1 ELSE 0]
    /\ senderStats = [s \in Senders |-> NoStatsRow]
    /\ SyncIdle
    /\ LearnIdle
    /\ run = NoRun
    /\ aiRows = [i \in 1..mailboxSize |-> NoAiRow]
    /\ FnIdle
    /\ AccountsIdle
    /\ msgFlags = [i \in 1..mailboxSize |-> EvaluableFlags]
    /\ autoIncludeSenders = {}
    /\ classifier = "answers"
    /\ confirm = NoConfirm
    /\ deleteBatches = <<>>
    /\ trashed = <<>>

\* the client posts suggest-deletes again
RunAgain ==
    /\ run.pc = "done"
    /\ run' = NoRun
    /\ UNCHANGED <<mailboxSize, msgRows, senderStats, aiRows, faults,
                   notClassifyVars>>

NextRuns == NextClassify \/ RunAgain

\* a started handler runs to its answer, and the client keeps posting
SpecRuns == InitRuns /\ [][NextRuns]_vars /\ WF_vars(NextRuns)

----
(***************************************************************************)
(* Part 5.  The GoogleAccount helpers createOrUpdateGoogleAccount,         *)
(* setActiveGoogleAccount and disconnectGoogleAccount on the accounts of   *)
(* one user.  An account is named by its email address; the table is kept  *)
(* in createdAt order.  The calls come one after the other.                *)
(***************************************************************************)
Emails == {"a@mail", "b@mail", "c@mail", "d@mail"}

InitAccounts ==
    /\ accounts = <<>>
    /\ mailboxSize = 0
    /\ msgRows = [i \in MsgIds |-> 0]
    /\ senderStats = [s \in Senders |-> NoStatsRow]
    /\ SyncIdle
    /\ LearnIdle
    /\ ClassifyIdle
    /\ FnIdle
    /\ DecideIdle

\* .where(emailAddress = e) / .where(id = e): the row's position, 0 = none
AccountIndex(rows, e) ==
    LET S == {i \in 1..Len(rows) : rows[i].emailAddress = e}
    IN IF S = {} THEN 0 ELSE CHOOSE i \in S : TRUE

\* update(googleAccounts).set({isActive: false}).where(userId = userId)
DeactivateAll(rows) == [i \in 1..Len(rows) |-> [rows[i] EXCEPT !.isActive = FALSE]]

\* update(googleAccounts).set({isActive: false})
\*     .where(and(userId = userId, id = existingAccounts[0].id))
DeactivateWhereId(rows, k) == [rows EXCEPT ![k].isActive = FALSE]

\* update(googleAccounts).set({isActive: true}).where(id = ...)
Activate(rows, k) == [rows EXCEPT ![k].isActive = TRUE]

\* delete(googleAccounts).where(id = ...)
DeleteAccount(rows, k) ==
    [i \in 1..(Len(rows) - 1) |-> IF i < k THEN rows[i] ELSE rows[i + 1]]

\* the update branch: updateData carries isActive only when setAsActive
UpdateExistingAccount(rows, k, setAsActive) ==
    IF setAsActive THEN Activate(DeactivateWhereId(rows, k), k) ELSE rows

\* the create branch
CreateAccount(rows, e, setAsActive) ==
    LET isFirstAccount == Len(rows) = 0
        shouldBeActive == setAsActive \/ isFirstAccount
        others == IF shouldBeActive /\ ~isFirstAccount THEN DeactivateAll(rows)
                                                       ELSE rows
    IN Append(others, [emailAddress |-> e, isActive |-> shouldBeActive])

CreateOrUpdateGoogleAccount(e, setAsActive) ==
    /\ LET k == AccountIndex(accounts, e) IN
       accounts' = IF k > 0 THEN UpdateExistingAccount(accounts, k, setAsActive)
                            ELSE CreateAccount(accounts, e, setAsActive)
    /\ UNCHANGED <<msgRows, senderStats, syncVars, learnVars, classifyVars,
                   fnVars, decideVars>>

\* throws when the account is not the user's
SetActiveGoogleAccount(e) ==
    /\ LET k == AccountIndex(accounts, e) IN
       accounts' = IF k = 0 THEN accounts
                            ELSE Activate(DeactivateAll(accounts), k)
    /\ UNCHANGED <<msgRows, senderStats, syncVars, learnVars, classifyVars,
                   fnVars, decideVars>>

\* throws when the account is not the user's; when the deleted account was
\* the active one, the oldest remaining account becomes active
DisconnectGoogleAccount(e) ==
    /\ LET k == AccountIndex(accounts, e)
           remaining == DeleteAccount(accounts, k)
       IN accounts' =
            IF k = 0 THEN accounts
            ELSE IF accounts[k].isActive /\ Len(remaining) > 0
                 THEN Activate(remaining, 1)
                 ELSE remaining
    /\ UNCHANGED <<msgRows, senderStats, syncVars, learnVars, classifyVars,
                   fnVars, decideVars>>

NextAccounts ==
    \E e \in Emails :
        \/ \E setAsActive \in BOOLEAN : CreateOrUpdateGoogleAccount(e, setAsActive)
        \/ SetActiveGoogleAccount(e)
        \/ DisconnectGoogleAccount(e)

SpecAccounts == InitAccounts /\ [][NextAccounts]_vars

----
(***************************************************************************)
(* Part 6.  POST confirm-delete: read the account's candidates, create a   *)
(* DeleteBatch, trash and mark each selected message, keep each candidate  *)
(* that was not selected, finalize the batch.  Up to two requests run at   *)
(* the same time; the handler is cut at its accesses to the shared tables. *)
(* With stream = true the work runs in the start() of a ReadableStream and *)
(* reports through sendProgress; the client may drop the connection, after *)
(* which controller.enqueue throws.                                        *)
(***************************************************************************)
ConfirmSlots == {"d1", "d2"}

\* the variables confirm-delete does not use
notConfirmVars ==
    <<mailboxSize, msgRows, progress, pc, loc, resp, invocations, overlapped,
      learnVars, fnVars, accountVars, run, autoIncludeSenders, classifier>>

\* the classification columns of a message an earlier run made a candidate
CandidateRow ==
    [NoAiRow EXCEPT !.aiCategory = PROMO, !.aiDeleteScore = 80,
                    !.aiDeleteReason = "model", !.isDeleteCandidate = TRUE]

\* messages of the store: a candidate of the caller's active account, a
\* message of that account that is no candidate, a candidate of another
\* user or account
ConfirmKinds == {"candidate", "plain", "foreign"}

FlagsOfKind(kind) == [EvaluableFlags EXCEPT !.mine = (kind # "foreign")]

AiRowOfKind(kind) == IF kind = "plain" THEN NoAiRow ELSE CandidateRow

\* the tables before the first confirm-delete request
DecideStore ==
    /\ mailboxSize \in 1..MaxDecide
    /\ msgRows = [i \in MsgIds |-> IF i <= mailboxSize THEN 1 ELSE 0]
    /\ senderStats = [s \in Senders |-> NoStatsRow]
    /\ \E kinds \in [1..mailboxSize -> ConfirmKinds] :
            /\ msgFlags = [i \in 1..mailboxSize |-> FlagsOfKind(kinds[i])]
            /\ aiRows = [i \in 1..mailboxSize |-> AiRowOfKind(kinds[i])]
    /\ autoIncludeSenders = {}
    /\ confirm = NoConfirm
    /\ deleteBatches = <<>>
    /\ trashed = [i \in 1..mailboxSize |-> 0]

InitConfirm ==
    /\ DecideStore
    /\ classifier = "any"
    /\ SyncIdle
    /\ LearnIdle
    /\ run = NoRun
    /\ FnIdle
    /\ AccountsIdle

\* the messageIds of a request: ids of messages of the store and the id of no
\* message, in any order, with repetitions
Selections(n) == UNION {[1..len -> 1..(n + 1)] : len \in 0..MaxSelected}

\* allCandidates
AllCandidates ==
    {i \in DOMAIN msgFlags :
        /\ msgFlags[i].mine
        /\ aiRows[i].isDeleteCandidate
        /\ ~msgFlags[i].isDeletedByApp}

NewDeleteBatch(totalCandidates) ==
    [status |-> "pending", totalCandidates |-> totalCandidates,
     totalDeleted |-> 0, items |-> <<>>]

\* the handler's locals; batch is deleteBatch.id, status the response's,
\* failed the ids whose trashMessage call threw
NewConfirm(messageIds, stream, candidates, batch) ==
    [pc |-> "find", messageIds |-> messageIds, stream |-> stream,
     cancelled |-> FALSE, allCandidates |-> candidates, batch |-> batch,
     idx |-> 0, keepIdx |-> 0, deletedCount |-> 0, skippedCount |-> 0,
     errorCount |-> 0, failed |-> {}, read |-> NoStatsRow, status |-> 0]

\* deselectedCandidates
Deselected(l) == OldestFirst(l.allCandidates \ SeqRange(l.messageIds))

\* sendProgress returns: there is no stream, or the stream is open
Sent(l) == ~l.stream \/ ~l.cancelled

\* the for loop moves to the next messageId, or to the deselected candidates
NextSelected(l) ==
    [l EXCEPT !.idx = @ + 1,
              !.pc = IF l.idx + 1 < Len(l.messageIds) THEN "find"
                     ELSE IF Deselected(l) # <<>> THEN "keep"
                     ELSE "finalize"]

\* the loop over the deselected candidates moves on
NextDeselected(l) ==
    [l EXCEPT !.keepIdx = @ + 1,
              !.pc = IF l.keepIdx + 1 < Len(Deselected(l)) THEN "keep"
                     ELSE "finalize"]

\* db.insert(deleteBatchItems)
WithItem(batches, l, id, decision, reason) ==
    [batches EXCEPT ![l.batch].items =
        Append(@, [messageId |-> id, decision |-> decision, reason |-> reason])]

\* the catch of one messageId: count the error, report it, add the error
\* item.  When sendProgress throws here the error leaves the loop and
\* start() ends in its own catch.
CatchSelected(l) ==
    IF Sent(l) THEN NextSelected([l EXCEPT !.errorCount = @ + 1])
               ELSE [l EXCEPT !.errorCount = @ + 1, !.pc = "aborted"]

\* the end of the try block of one messageId: sendProgress, then the next id
EndSelected(l) == IF Sent(l) THEN NextSelected(l) ELSE CatchSelected(l)

CurSelected(l) == l.messageIds[l.idx + 1]

CurDeselected(l) == Deselected(l)[l.keepIdx + 1]

SetConfirm(k, l) == confirm' = [confirm EXCEPT ![k] = l]

At(k, where) == k \in DOMAIN confirm /\ confirm[k].pc = where

\* the request arrives: an empty list is answered with 400; otherwise the
\* candidates are read and the batch is created
ConfirmDelete(k) ==
    /\ k \notin DOMAIN confirm
    /\ k = "d1" \/ "d1" \in DOMAIN confirm
    /\ \E messageIds \in Selections(mailboxSize), stream \in BOOLEAN :
         LET l == NewConfirm(messageIds, stream, AllCandidates,
                             Len(deleteBatches) + 1)
         IN IF Len(messageIds) = 0
            THEN /\ confirm' = [d \in DOMAIN confirm \cup {k} |->
                        IF d = k THEN [l EXCEPT !.pc = "done", !.status = 400,
                                                !.batch = 0,
                                                !.allCandidates = {}]
                                 ELSE confirm[d]]
                 /\ UNCHANGED deleteBatches
            ELSE /\ confirm' = [d \in DOMAIN confirm \cup {k} |->
                        IF d = k THEN l ELSE confirm[d]]
                 /\ deleteBatches' = Append(deleteBatches,
                        NewDeleteBatch(Cardinality(AllCandidates)))
    /\ UNCHANGED <<msgFlags, aiRows, senderStats, trashed, faults,
                   notConfirmVars>>

\* select the message of the id: none, already deleted by the app, or one
\* to trash
FindMessage(k) ==
    /\ At(k, "find")
    /\ LET l == confirm[k]
           id == CurSelected(l)
       IN IF id \notin DOMAIN msgFlags
          THEN SetConfirm(k, EndSelected([l EXCEPT !.errorCount = @ + 1]))
          ELSE IF msgFlags[id].isDeletedByApp
          THEN SetConfirm(k, EndSelected([l EXCEPT !.skippedCount = @ + 1]))
          ELSE SetConfirm(k, [l EXCEPT !.pc = "trash"])
    /\ UNCHANGED <<msgFlags, aiRows, senderStats, deleteBatches, trashed,
                   faults, notConfirmVars>>

\* trashMessage with the client of the active account, then the update of
\* the row.  The provider does not find a message of another mailbox; for a
\* message of this mailbox the call may fail.
TrashAndMark(k) ==
    /\ At(k, "trash")
    /\ LET l == confirm[k]
           id == CurSelected(l)
           caught == CatchSelected([l EXCEPT !.failed = @ \cup {id}])
       IN \/ /\ msgFlags[id].mine
             /\ trashed' = [trashed EXCEPT ![id] = @ + 1]
             /\ msgFlags' = [msgFlags EXCEPT ![id].isDeletedByApp = TRUE]
             /\ SetConfirm(k, [l EXCEPT !.pc = "record"])
             /\ UNCHANGED <<deleteBatches, faults>>
          \/ /\ IF msgFlags[id].mine THEN Fault ELSE UNCHANGED faults
             /\ SetConfirm(k, caught)
             /\ deleteBatches' =
                    IF caught.pc = "aborted" THEN deleteBatches
                    ELSE WithItem(deleteBatches, l, id, "error", "trash failed")
             /\ UNCHANGED <<msgFlags, trashed>>
    /\ UNCHANGED <<aiRows, senderStats, notConfirmVars>>

\* recordDeletion / recordKeep: the select of the message and of the
\* sender's row
SelectForRecord(k, where, id, then) ==
    /\ At(k, where)
    /\ SetConfirm(k, [confirm[k] EXCEPT !.read = senderStats[SenderOf(id)],
                                        !.pc = then])
    /\ UNCHANGED <<msgFlags, aiRows, senderStats, deleteBatches, trashed,
                   faults, notConfirmVars>>

RecordDeletionSelect(k) ==
    SelectForRecord(k, "record", CurSelected(confirm[k]), "recordWrite")

\* recordDeletion's update or insert (a rejected insert throws into the
\* catch of the id), the deleted item, deletedCount++, sendProgress
RecordDeletionWrite(k) ==
    /\ At(k, "recordWrite")
    /\ LET l == confirm[k]
           id == CurSelected(l)
           s == SenderOf(id)
           caught == CatchSelected(l)
           counted == [l EXCEPT !.deletedCount = @ + 1]
       IN IF StatsInsertRejected(senderStats[s], l.read)
          THEN /\ SetConfirm(k, caught)
               /\ deleteBatches' =
                    IF caught.pc = "aborted" THEN deleteBatches
                    ELSE WithItem(deleteBatches, l, id, "error", "insert rejected")
               /\ UNCHANGED senderStats
          ELSE /\ senderStats' = [senderStats EXCEPT ![s] =
                        StatsAfterWrite(@, l.read, "deletedByAppCount")]
               /\ deleteBatches' = WithItem(deleteBatches, l, id, "deleted", "")
               /\ SetConfirm(k, EndSelected(counted))
    /\ UNCHANGED <<msgFlags, aiRows, trashed, faults, notConfirmVars>>

\* a candidate that was not selected: isManuallyKept = true,
\* isDeleteCandidate = false.  The streaming loop adds the skipped item next
\* and does not call recordKeep.
KeepCandidate(k) ==
    /\ At(k, "keep")
    /\ LET l == confirm[k]
           id == CurDeselected(l)
       IN /\ msgFlags' = [msgFlags EXCEPT ![id].isManuallyKept = TRUE]
          /\ aiRows' = [aiRows EXCEPT ![id].isDeleteCandidate = FALSE]
          /\ IF l.stream
             THEN /\ deleteBatches' =
                        WithItem(deleteBatches, l, id, "skipped", "User deselected")
                  /\ SetConfirm(k, NextDeselected(l))
             ELSE /\ UNCHANGED deleteBatches
                  /\ SetConfirm(k, [l EXCEPT !.pc = "keepRecord"])
    /\ UNCHANGED <<senderStats, trashed, faults, notConfirmVars>>

RecordKeepSelect(k) ==
    SelectForRecord(k, "keepRecord", CurDeselected(confirm[k]), "keepWrite")

\* recordKeep's update or insert and the skipped item; an error is logged
\* and the loop goes on
RecordKeepWrite(k) ==
    /\ At(k, "keepWrite")
    /\ LET l == confirm[k]
           id == CurDeselected(l)
           s == SenderOf(id)
       IN /\ IF StatsInsertRejected(senderStats[s], l.read)
             THEN UNCHANGED <<senderStats, deleteBatches>>
             ELSE /\ senderStats' = [senderStats EXCEPT ![s] =
                        StatsAfterWrite(@, l.read, "manuallyKeptCount")]
                  /\ deleteBatches' =
                        WithItem(deleteBatches, l, id, "skipped", "User deselected")
          /\ SetConfirm(k, NextDeselected(l))
    /\ UNCHANGED <<msgFlags, aiRows, trashed, faults, notConfirmVars>>

\* status: failed only if errorCount > 0 and deletedCount = 0
BatchStatus(l) ==
    IF l.errorCount > 0 /\ l.deletedCount = 0 THEN "failed" ELSE "completed"

\* the update of the batch and the answer
FinalizeBatch(k) ==
    /\ At(k, "finalize")
    /\ LET l == confirm[k] IN
        /\ deleteBatches' = [deleteBatches EXCEPT
                                ![l.batch].status = BatchStatus(l),
                                ![l.batch].totalDeleted = l.deletedCount]
        /\ SetConfirm(k, [l EXCEPT !.pc = "done", !.status = 200])
    /\ UNCHANGED <<msgFlags, aiRows, senderStats, trashed, faults,
                   notConfirmVars>>

\* the client of a streaming request drops the connection
ClientCancels(k) ==
    /\ k \in DOMAIN confirm
    /\ confirm[k].stream
    /\ ~confirm[k].cancelled
    /\ confirm[k].pc \notin {"done", "aborted"}
    /\ SetConfirm(k, [confirm[k] EXCEPT !.cancelled = TRUE])
    /\ UNCHANGED <<msgFlags, aiRows, senderStats, deleteBatches, trashed,
                   faults, notConfirmVars>>

ConfirmStep(k) ==
    \/ ConfirmDelete(k)
    \/ FindMessage(k)
    \/ TrashAndMark(k)
    \/ RecordDeletionSelect(k)
    \/ RecordDeletionWrite(k)
    \/ KeepCandidate(k)
    \/ RecordKeepSelect(k)
    \/ RecordKeepWrite(k)
    \/ FinalizeBatch(k)
    \/ ClientCancels(k)

NextConfirm == \E k \in ConfirmSlots : ConfirmStep(k)

SpecConfirm == InitConfirm /\ [][NextConfirm]_vars

\* One classification run of POST suggest-deletes and one confirm-delete
\* request of the same account, interleaved at their table accesses.
InitDecide ==
    /\ DecideStore
    /\ classifier = "answers"
    /\ SyncIdle
    /\ LearnIdle
    /\ run = NoRun
    /\ FnIdle
    /\ AccountsIdle

NextDecide == NextClassify \/ ConfirmStep("d1")

SpecDecide == InitDecide /\ [][NextDecide]_vars

----
(***************************************************************************)
(* Properties                                                              *)
(***************************************************************************)
Rows == 1..Len(progress)

InProgressRows == {r \in Rows : progress[r].status = "in_progress"}

\* number of Message rows in the store
RECURSIVE SumRows(_)
SumRows(n) == IF n = 0 THEN 0 ELSE msgRows[n] + SumRows(n - 1)

TotalMessageRows == SumRows(MaxMsgs)

\* C1: resumability.  When invocations that never overlap, and in which no
\* call failed, have brought the first run to completed, every id the
\* provider lists has gone through the loop exactly once and
\* processedMessages is the number of ids listed.  (The run started on an
\* empty store: an id that was skipped has no row, and an id that went
\* through the loop twice was counted as updated.)
C1_Resumability ==
    (/\ ~overlapped
     /\ faults = 0
     /\ Len(progress) = 1
     /\ progress[1].status = "completed")
        => /\ progress[1].processedMessages = mailboxSize
           /\ \A id \in 1..mailboxSize : msgRows[id] = 1
           /\ progress[1].updated = 0

\* C2: fresh sync in one invocation.  The first invocation ever, on a mailbox
\* of at most one page, returning "Sync completed" with no call failed and
\* no per-item error, leaves the row completed with processed = created = n
\* and updated = 0.
C2_FreshSyncOneInvocation ==
    (/\ invocations = 1
     /\ faults = 0
     /\ resp.kind = "completed"
     /\ mailboxSize <= MAX_MESSAGES_PER_API_CALL
     /\ progress[resp.rec].errors = 0)
        => /\ progress[resp.rec].status = "completed"
           /\ progress[resp.rec].processedMessages = mailboxSize
           /\ progress[resp.rec].created = mailboxSize
           /\ progress[resp.rec].updated = 0

\* C3: idempotent upsert.  When a first run completed and a second run
\* completed after it (no invocations overlapping, no call failed in
\* either), the second run created nothing, updated every message it
\* processed without error, and the store holds as many rows as after the
\* first run.
C3_IdempotentUpsert ==
    (/\ ~overlapped
     /\ faults = 0
     /\ Len(progress) = 2
     /\ progress[1].status = "completed"
     /\ progress[2].status = "completed")
        => /\ progress[2].created = 0
           /\ progress[2].updated =
                progress[2].processedMessages - progress[2].errors
           /\ TotalMessageRows = progress[1].created

\* C4: the store never holds two Message rows for one remote message id of
\* the account, whatever the interleaving of invocations.
C4_UniqueMessageRow == \A id \in MsgIds : msgRows[id] <= 1

\* C4 witness: two overlapping invocations both found no row for an id; one
\* inserted it and the insert of the other was rejected.
C4_Witness ==
    \E p \in Procs :
        /\ overlapped
        /\ loc[p].itemErr = "uniqueMessage"
        /\ msgRows[loc[p].toProcess[loc[p].idx]] = 1

\* C5: at most one SyncProgress row of the account is in_progress, also when
\* invocations overlap.
C5_SingleInProgress == Cardinality(InProgressRows) <= 1

\* C6: a row's status changes only along in_progress -> completed,
\* in_progress -> timeout, timeout -> in_progress and in_progress -> failed;
\* in particular a completed or failed row keeps its status for ever.
AllowedTransitions ==
    {<<"in_progress", "completed">>, <<"in_progress", "timeout">>,
     <<"timeout", "in_progress">>, <<"in_progress", "failed">>}

C6_StatusTransitions ==
    [][\A r \in Rows :
          progress'[r].status # progress[r].status
            => <<progress[r].status, progress'[r].status>> \in AllowedTransitions]_vars

\* C7: a run marked timeout is resumed.  With invocations that never overlap,
\* no fresh row is created behind a row that is in status timeout.
C7_TimeoutResumed ==
    ~overlapped => \A r \in Rows : (r < Len(progress) => progress[r].status # "timeout")

\* C8: time-budget exit.  An invocation that stops on the time budget (ids of
\* its page still unprocessed) has persisted its counters and token, left the
\* row in_progress and answers hasMore = TRUE; and a successful answer
\* without hasMore means the row is completed.
C8_TimeBudgetExit ==
    /\ resp.kind = "timeExit" => resp.hasMore
    /\ (~overlapped /\ resp.status = 200 /\ ~resp.hasMore)
            => progress[resp.rec].status = "completed"

\* C9: a per-item error (metadata fetch failing, store write rejected) adds
\* one to the error counter and the loop goes on with the next identifier of
\* the sub-chunk; the step leaves the status of the run as it was.
C9_ItemErrorContinues ==
    [][\A p \in Procs :
          (loc'[p] # loc[p] /\ loc'[p].itemErr # "none")
            => /\ loc'[p].errors = loc[p].errors + 1
               /\ loc'[p].idx = loc[p].idx + 1
               /\ loc'[p].toProcess = loc[p].toProcess
               /\ pc'[p] = "loop"
               /\ loc'[p].rec = loc[p].rec
               /\ progress'[loc[p].rec].status = progress[loc[p].rec].status]_vars

\* C9 witness: an invocation that had a per-item error on an earlier
\* identifier of its sub-chunk is writing a later one, the run in_progress.
C9_Witness ==
    \E p \in Procs :
        /\ ~loc[p].isResuming
        /\ loc[p].errors = 1
        /\ loc[p].idx >= 1
        /\ pc[p] = "statsWrite"
        /\ progress[loc[p].rec].status = "in_progress"

C11_TimeoutMarksTimeout ==
    [][/\ resp'.cause = "timeout"
            => /\ progress'[resp'.rec].status = "timeout"
               /\ progress'[resp'.rec].nextPageToken =
                        progress[resp'.rec].nextPageToken
               /\ progress'[resp'.rec].processedMessages =
                        progress[resp'.rec].processedMessages
       /\ resp'.cause = "other"
            => progress'[resp'.rec].status = "failed"]_vars

\* decision counters of a row
DecisionSum(row) ==
    row.deletedByAppCount + row.manuallyDeletedCount + row.manuallyKeptCount

\* C12: no counter of a SenderStats row ever decreases, whatever the
\* interleaving of the calls that write the row.
C12_CountersMonotonic ==
    [][\A s \in Senders : \A col \in StatsColumns :
            senderStats'[s][col] >= senderStats[s][col]]_vars

\* C13: a call of recordDeletion, recordManualDeletion or recordKeep for an
\* existing message raises its own counter of the sender's row by one and
\* leaves the other two decision counters alone, so that once the calls have
\* returned the three decision counters of a sender add up to the number
\* of calls made for it.
C13_DecisionCallsCounted ==
    call = NoCalls
        => \A s \in Senders : DecisionSum(senderStats[s]) = recorded[s]

\* lists of senders, repetitions included
SenderLists == UNION {[1..n -> Senders] : n \in 0..MaxSenderList}

\* C15: for every list of senders, the batch lookup gives each sender of the
\* list the penalty the single lookup gives it.
C15_BatchEqualsSingle ==
    \A senders \in SenderLists :
        LET m == GetBatchSenderPenalties(senderStats, senders)
        IN /\ DOMAIN m = SeqRange(senders)
           /\ \A s \in SeqRange(senders) :
                    m[s] = GetSenderPenalty(senderStats, s)

\* C15 witness: one sender has a row whose penalty is below 1.0, the other
\* has no row, and all calls have returned.
C15_Witness ==
    /\ call = NoCalls
    /\ \E s, t \in Senders :
            /\ senderStats[s].exists
            /\ GetSenderPenalty(senderStats, s) < 100
            /\ ~senderStats[t].exists
            /\ GetBatchSenderPenalties(senderStats, <<t, s, t>>)[t] = 100

C16_ScoreClamp ==
    \A c \in DOMAIN run.chunks :
        run.chunks[c].state = "done" =>
            \A i \in 1..Len(run.chunks[c].results) :
                LET r == run.chunks[c].results[i]
                IN /\ 0 <= r.deleteScore
                   /\ r.deleteScore <= 100
                   /\ r.deleteScore <= r.raw

\* C17: whatever string normalizeCategory is given, it returns a member of
\* the seven-member category enum.
C17_CategoryClosure ==
    "normalizeCategory" \in fnOut.applied => fnOut.category \in Categories

\* C17 witness: a string that is no member of the enum and holds none of the
\* mapped words was given, and unknown came back.
C17_Witness ==
    /\ "normalizeCategory" \in fnOut.applied
    /\ fnIn.category = <<"s", "o", "c", "i", "a", "l">>
    /\ fnOut.category = UNKNOWN

\* C18: chunk failure isolation.  A chunk whose classification throws gets
\* exactly one default result (unknown, 0, "Classification failed") per
\* message of the chunk; the results another chunk has got are not changed
\* by it, and the run's classifications are the chunks' results in order.
C18_ChunkFailureIsolation ==
    [][/\ \A c \in DOMAIN run'.chunks :
            /\ run'.chunks[c].state = "failed" =>
                    LET emails == ChunkEmails(run'.messageList, c)
                        res == run'.chunks[c].results
                    IN /\ Len(res) = Len(emails)
                       /\ \A i \in 1..Len(res) :
                            /\ res[i].gmailMessageId = emails[i]
                            /\ res[i].category = UNKNOWN
                            /\ res[i].deleteScore = 0
                            /\ res[i].reason = "Classification failed"
            /\ (c \in DOMAIN run.chunks /\ run.chunks[c].state # "pending")
                    => run'.chunks[c] = run.chunks[c]
       /\ (run.pc = "classify" /\ run'.pc = "update")
            => run'.classifications = Flat(run.chunks, 1)]_vars

\* C18 witness: the first chunk failed, the second got real results, and the
\* run's classifications are the defaults of the first followed by them.
C18_Witness ==
    /\ run.pc = "update"
    /\ Len(run.chunks) = 2
    /\ run.chunks[1].state = "failed"
    /\ run.chunks[2].state = "done"
    /\ Len(run.chunks[2].results) = 1
    /\ run.chunks[2].results[1].gmailMessageId = ChunkEmails(run.messageList, 2)[1]
    /\ run.chunks[2].results[1].category = PROMO
    /\ run.chunks[2].results[1].deleteScore > 0
    /\ Len(run.classifications) = Len(run.messageList)
    /\ run.classifications[1].reason = "Classification failed"

\* number of classifications of the run that carry the id
ResultsFor(id) ==
    Cardinality({i \in 1..Len(run.classifications) :
                    run.classifications[i].gmailMessageId = id})

\* C19: when a run has answered (no update failed), each message of its
\* list has exactly one result and its row was written exactly once,
\* whatever ids the classifier's answers held.
C19_OneResultPerMessage ==
    (run.pc = "done" /\ run.response.status = 200 /\ faults = 0)
        => \A id \in SeqRange(run.messageList) :
                ResultsFor(id) = 1 /\ aiRows[id].writes = 1

\* C20: total classification failure.  When the classifier failed for every
\* chunk of a run, the run answers with an error, not with success.
C20_TotalFailureIsError ==
    (/\ run.pc = "done"
     /\ Len(run.chunks) > 0
     /\ \A c \in DOMAIN run.chunks : run.chunks[c].state = "failed")
        => run.response.status >= 400 /\ ~run.response.success

\* C26: normalizeCategory preserves valid categories.  Given a member of the
\* category enum, normalizeCategory returns that member.
C26_ValidCategoryPreserved ==
    ("normalizeCategory" \in fnOut.applied /\ fnIn.category \in Categories)
        => fnOut.category = fnIn.category

\* C25: single active account.  At most one of the user's GoogleAccounts is
\* active, whatever createOrUpdateGoogleAccount, setActiveGoogleAccount and
\* disconnectGoogleAccount calls were made.
C25_SingleActiveAccount ==
    Cardinality({i \in 1..Len(accounts) : accounts[i].isActive}) <= 1

\* the selection conditions of C21 for a message list read from the flags
SelectionOf(list, flags, senders) ==
    LET Eligible(i) ==
            /\ flags[i].mine
            /\ ~flags[i].isDeletedByApp
            /\ ~flags[i].isManuallyKept
            /\ flags[i].old \/ SenderOf(i) \in senders
    IN /\ \A i \in SeqRange(list) : i \in DOMAIN flags /\ Eligible(i)
       /\ Len(list) <= BATCH_SIZE
       /\ \A i \in SeqRange(list) : \A j \in DOMAIN flags :
                (Eligible(j) /\ j < i) => j \in SeqRange(list)

\* C21: classification selection.  The messages a run selects for the
\* classifier are the account's, not deleted by the app, not manually kept,
\* and older than the cutoff or from an auto-include sender; there are at
\* most BATCH_SIZE of them, and no eligible message older than a selected
\* one is left out.
C21_Selection ==
    "messageList" \in fnOut.applied
        => SelectionOf(fnOut.messageList, msgFlags, autoIncludeSenders)

\* C21 witness: BATCH_SIZE messages are selected, one of them not old but
\* from an auto-include sender; an eligible message is left out.
C21_Witness ==
    /\ "messageList" \in fnOut.applied
    /\ Len(fnOut.messageList) = BATCH_SIZE
    /\ \E i \in SeqRange(fnOut.messageList) : ~msgFlags[i].old
    /\ ToEvaluate(msgFlags, autoIncludeSenders) \ SeqRange(fnOut.messageList) # {}

\* C27: classification coverage.  With a classifier that answers and no
\* decision made in between, repeated runs eventually give every eligible
\* message a classification result.
C27_Coverage ==
    <>(\A i \in ToEvaluate(msgFlags, autoIncludeSenders) :
            aiRows[i].aiDeleteReason # "")

\* the run of slot k has ended: the handler answered, or start() returned
Ended(k) == k \in DOMAIN confirm /\ confirm[k].pc \in {"done", "aborted"}

\* C29: over all confirm-delete runs, the trash call succeeds at most once
\* for a message and recordDeletion counts it at most once: a sender's
\* deletedByAppCount never exceeds the number of the sender's messages that
\* are marked isDeletedByApp.
C29_DeleteAtMostOnce ==
    /\ \A i \in DOMAIN trashed : trashed[i] <= 1
    /\ \A s \in Senders :
          senderStats[s].deletedByAppCount <=
            Cardinality({i \in DOMAIN msgFlags :
                            SenderOf(i) = s /\ msgFlags[i].isDeletedByApp})

\* C30: a step of a confirm-delete run that trashes a message, marks it
\* isDeletedByApp or changes a SenderStatistic for a selected id does so only
\* for a message of the candidate set the run read for the caller's active
\* account.
C30_OnlyCandidatesTrashed ==
    [][\A k \in DOMAIN confirm :
          /\ confirm[k].pc \in {"trash", "recordWrite"}
          /\ confirm'[k] # confirm[k]
          /\ \/ trashed' # trashed
             \/ msgFlags' # msgFlags
             \/ senderStats' # senderStats
          => CurSelected(confirm[k]) \in confirm[k].allCandidates]_vars

\* C23: a confirm-delete run that created a DeleteBatch and has ended left
\* the batch finalized: failed if errorCount > 0 and deletedCount = 0,
\* completed otherwise, never pending.
C23_BatchFinalized ==
    \A k \in DOMAIN confirm :
        Ended(k) /\ confirm[k].batch # 0
        => deleteBatches[confirm[k].batch].status = BatchStatus(confirm[k])

\* the last item of the batch is the error item of the id, with a reason
ErrorItemAdded(batches, b, id) ==
    /\ batches[b].items # <<>>
    /\ LET item == batches[b].items[Len(batches[b].items)] IN
        /\ item.messageId = id
        /\ item.decision = "error"
        /\ item.reason # ""

\* C24: when trashMessage fails for a selected id, the step appends the
\* error item with the reason for that id, leaves the message unmarked and
\* goes on with the next id or the deselected candidates; a run in which a
\* trash call failed ends with every selected id and every deselected
\* candidate processed.
C24_NoAbortOnError ==
    /\ [](\A k \in DOMAIN confirm :
            Ended(k) /\ confirm[k].failed # {}
            => /\ confirm[k].pc = "done"
               /\ confirm[k].idx = Len(confirm[k].messageIds)
               /\ confirm[k].keepIdx = Len(Deselected(confirm[k])))
    /\ [][\A k \in DOMAIN confirm :
            /\ confirm[k].pc = "trash"
            /\ confirm'[k].errorCount > confirm[k].errorCount
            => /\ ErrorItemAdded(deleteBatches', confirm[k].batch,
                                 CurSelected(confirm[k]))
               /\ msgFlags' = msgFlags
               /\ confirm'[k].pc \in {"find", "keep", "finalize"}]_vars

\* C22: after a confirm-delete run with selected ids S and candidate set C,
\* every message of C \ S has isManuallyKept = true and isDeleteCandidate =
\* false, and every message of S whose trash call did not fail has
\* isDeletedByApp = true.
C22_CandidateKeepSymmetry ==
    \A k \in DOMAIN confirm :
        Ended(k) /\ confirm[k].batch # 0
        => LET l == confirm[k]
               S == SeqRange(l.messageIds)
           IN /\ \A i \in l.allCandidates \ S :
                    msgFlags[i].isManuallyKept /\ ~aiRows[i].isDeleteCandidate
              /\ \A i \in (S \cap DOMAIN msgFlags) \ l.failed :
                    msgFlags[i].isDeletedByApp

\* C28: in every reachable state, also when a classification run and a
\* confirm-delete run of the same account interleave, no message has both
\* isManuallyKept = true and isDeleteCandidate = true.
C28_NoKeptCandidate ==
    \A i \in DOMAIN msgFlags :
        ~(msgFlags[i].isManuallyKept /\ aiRows[i].isDeleteCandidate)

====
